---- MODULE Spec2Model ----
(***************************************************************************)
(* pmana: per-channel Gaussian peak fit (anatestdata.GaussianFitToChannel), *)
(* the campaign iteration that calls it (anatestdata.Iterate), the file     *)
(* reorganizer (io.FormatPadovaData) and the merge of several campaigns     *)
(* (anatestdata.DumpCampaigns, anatestdata.MergeCampaigns).                 *)
(*                                                                          *)
(* Numbers.  Bin centres, bin edges, BinWidth and x are exact rationals,    *)
(* all written in one sub-unit: a bin centre of an input file is a multiple *)
(* of 4 sub-units, and 1e-6 (the grain of round(., 6)) is Micro sub-units.  *)
(* With that, every halving the code does (the median of an even number of  *)
(* differences, BinWidth / 2, (bins[:-1] + bins[1:]) / 2) is exact in the   *)
(* integers.  Floating-point error is not modelled.  Counts are integers.   *)
(* std is kept as the fraction num / den because 2.355 is no integer.       *)
(***************************************************************************)
EXTENDS Integers, Sequences, FiniteSets, TLC

\* ------------------------------------------------------------------ bounds

\* input ticks (4 sub-units each) per 1e-6: gaps of 1..MaxGap ticks then hold
\* spacings below, at and between multiples of the rounding grain
TicksPerMicro == 2

\* largest spacing of the bin centres of an input file, in ticks
MaxGap == 3

\* most channel files of a measurement directory of a campaign
MaxChannels == 2

\* most files of the flat input directory of FormatPadovaData
MaxInputFiles == 3

\* most campaign directories under the DataPath of MergeCampaigns
MaxCampaigns == 2

\* ------------------------------------------------------- program constants

\* `if len(CHData) < 10: continue`
MinRows == 10

\* the digits of a measurement number, \d{5} in REGEXSTRING
NumberDigits == 5

\* 1e-6, the grain of round(numpy.median(Diffs), 6), in sub-units
Micro == 4 * TicksPerMicro

\* 1.25, the test-pulse cut of `CHData[BINNAME] > 1.25`, in sub-units
MaskCut == 1250000 * Micro

\* ------------------------------------------------------------ sequences

RECURSIVE SumSeq(_)
SumSeq(s) == IF s = <<>> THEN 0 ELSE Head(s) + SumSeq(Tail(s))

RECURSIVE MaxSeq(_)
MaxSeq(s) ==
    IF Len(s) = 1 THEN s[1]
    ELSE LET m == MaxSeq(Tail(s)) IN IF s[1] >= m THEN s[1] ELSE m

RECURSIVE InsertSorted(_, _)
InsertSorted(v, s) ==
    IF s = <<>> THEN <<v>>
    ELSE IF v <= Head(s) THEN <<v>> \o s
    ELSE <<Head(s)>> \o InsertSorted(v, Tail(s))

\* sorted(...): ascending
RECURSIVE Sorted(_)
Sorted(s) == IF s = <<>> THEN <<>> ELSE InsertSorted(Head(s), Sorted(Tail(s)))

\* CHData[BINNAME], CHData[COUNTNAME]
BinCenters(ch) == [k \in 1..Len(ch) |-> ch[k].BinCenter]
Populations(ch) == [k \in 1..Len(ch) |-> ch[k].Population]

\* CHData.iloc[SKIP_NROWS:].reset_index(drop=True)
SkipRows(ch, nskip) ==
    IF nskip > 0 THEN SubSeq(ch, nskip + 1, Len(ch)) ELSE ch

\* CHData[CHData[BINNAME] > 1.25].reset_index(drop=True), unless i is 2
\* (i counts from 0 in the code and from 1 here)
MaskTestPulse(ch, mask, i) ==
    IF mask /\ i - 1 # 2 THEN SelectSeq(ch, LAMBDA r : r.BinCenter > MaskCut) ELSE ch

\* --------------------------------------------------- adaptive bin edges

\* numpy.diff
Diff(s) == [k \in 1..(Len(s) - 1) |-> s[k + 1] - s[k]]

\* numpy.median: the middle of the sorted values, the mean of the two middle
\* ones when their number is even
Median(s) ==
    LET t == Sorted(s)
        n == Len(t)
    IN  IF n % 2 = 1 THEN t[(n + 1) \div 2]
        ELSE (t[n \div 2] + t[n \div 2 + 1]) \div 2

\* the integer nearest to n / d, ties to the even one (d > 0)
RoundHalfEven(n, d) ==
    LET q == n \div d
        r == n % d
    IN  IF 2 * r < d THEN q
        ELSE IF 2 * r > d THEN q + 1
        ELSE IF q % 2 = 0 THEN q ELSE q + 1

\* round(v, 6)
Round6(v) == Micro * RoundHalfEven(v, Micro)

\* mutant of SortedCenters: the centres in the order of the rows
RowOrderCenters(ch) == BinCenters(ch)

\* sorted(CHData[BINNAME])
SortedCenters(ch) == Sorted(BinCenters(ch))

\* Diffs = numpy.diff(sorted(CHData[BINNAME])); BinWidth = round(numpy.median(Diffs), 6)
BinWidthOf(ch) == Round6(Median(Diff(SortedCenters(ch))))

\* numpy.append(CHData[BINNAME] - BinWidth / 2, CHData[BINNAME].iloc[-1] + BinWidth / 2)
FullBinEdges(ch) ==
    LET c == BinCenters(ch)
        n == Len(c)
        W == BinWidthOf(ch)
    IN  [k \in 1..(n + 1) |-> IF k <= n THEN c[k] - W \div 2 ELSE c[n] + W \div 2]

\* BinEdges[::2]: the edges at even (0-based) index
EveryOther(e) == [j \in 1..((Len(e) + 1) \div 2) |-> e[2 * j - 1]]

BinEdgesOf(ch, rebin) ==
    IF rebin THEN EveryOther(FullBinEdges(ch)) ELSE FullBinEdges(ch)

\* ------------------------------------------------------- numpy.histogram

\* numpy.histogram raises ValueError unless the bins never decrease
Monotonic(e) == \A k \in 1..(Len(e) - 1) : e[k] <= e[k + 1]

\* the weight of the samples below v (at or below v when closed)
RECURSIVE WeightBelow(_, _, _, _)
WeightBelow(a, w, v, closed) ==
    IF a = <<>> THEN 0
    ELSE (IF a[1] < v \/ (closed /\ a[1] = v) THEN w[1] ELSE 0)
         + WeightBelow(Tail(a), Tail(w), v, closed)

\* is the right edge of bin k part of the bin: only in the last bin
ClosedRight(k, nbins) == k = nbins

\* y of numpy.histogram(a, bins, weights = w): bin k is [bins[k], bins[k+1]),
\* the last bin also holds its right edge
Histogram(a, bins, w) ==
    LET nbins == Len(bins) - 1
    IN  [k \in 1..nbins |->
            WeightBelow(a, w, bins[k + 1], ClosedRight(k, nbins))
            - WeightBelow(a, w, bins[k], FALSE)]

\* x = (bins[:-1] + bins[1:]) / 2
BinMiddles(bins) == [k \in 1..(Len(bins) - 1) |-> (bins[k] + bins[k + 1]) \div 2]

\* ------------------------------------------------------------ fit seeds

\* mutant of Beats: the last of equal maxima wins
BeatsOrTies(v, best) == v >= best

\* is candidate value v taken over the best value so far (numpy.argmax keeps
\* the first of equal maxima)
Beats(v, best) == v > best

\* numpy.argmax(y): a scan from the left
RECURSIVE ArgMaxFrom(_, _, _)
ArgMaxFrom(yy, k, best) ==
    IF k > Len(yy) THEN best
    ELSE ArgMaxFrom(yy, k + 1, IF Beats(yy[k], yy[best]) THEN k ELSE best)

ArgMax(yy) == ArgMaxFrom(yy, 2, 1)

\* y > 0.1 * max(y), for one bin content v and m = max(y)
AboveTenth(v, m) == 10 * v > m

\* numpy.where(y > 0.1 * max(y))[0]: the indices, ascending
Where(yy) ==
    LET m == MaxSeq(yy)
    IN  SelectSeq([k \in 1..Len(yy) |-> k], LAMBDA k : AboveTenth(yy[k], m))

\* std = (x[indices[-1]] - x[indices[0]]) / 2.355
StdOf(xx, ind) ==
    [num |-> 1000 * (xx[ind[Len(ind)]] - xx[ind[1]]), den |-> 2355]

\* the first entry of p0: numpy.max(CHData[COUNTNAME])
AmplitudeSeed(ch) == MaxSeq(Populations(ch))

\* ------------------------------------------------ scipy.optimize.curve_fit

\* mutant of Ones3: zeros instead of ones
Zeros3 == <<0, 0, 0>>

\* numpy.ones(3), the parameters and the errors after a fit that failed
Ones3 == <<1, 1, 1>>

\* what a converged solve may return (pars, sqrt(diag(covs))): the solver is
\* scipy's, its numbers are not computed here
FitResults ==
    { [pars |-> <<21, 7, 3>>, errs |-> <<2, 1, 1>>],
      [pars |-> <<19, 8, 2>>, errs |-> <<3, 2, 1>>] }

\* the four entries a channel adds: peak, peak error, width, width error
ChannelEntries(p, e) == <<p[2], e[2], p[3], e[3]>>

\* --------------------------------------------------------------- inputs

\* rows of a channel file from its two columns
MakeRows(cs, ps) ==
    [k \in 1..Len(cs) |-> [BinCenter |-> cs[k], Population |-> ps[k]]]

\* the first bin centre of the input files: on the test-pulse cut
Origin == MaskCut

RowCounts == {MinRows - 1, MinRows, MinRows + 1}

Gaps == 1..MaxGap

\* n centres, d ticks apart
UniformCenters(n, d) == [k \in 1..n |-> Origin + 4 * d * (k - 1)]

\* the same with the gap after row p being g ticks
IrregularCenters(n, d, p, g) ==
    [k \in 1..n |-> Origin + 4 * d * (k - 1) + (IF k > p THEN 4 * (g - d) ELSE 0)]

\* gaps of d and g ticks in turn
AlternatingCenters(n, d, g) ==
    [k \in 1..n |-> Origin + 4 * (d * (k \div 2) + g * ((k - 1) \div 2))]

CenterChoices(n) ==
    {UniformCenters(n, d) : d \in Gaps}
    \cup {IrregularCenters(n, d, p, g) : d \in Gaps, p \in {3, 4}, g \in 0..MaxGap}
    \cup {AlternatingCenters(n, d, g) : d \in Gaps, g \in Gaps}

\* count columns: empty, flat, one bin, a peak with tails at exactly 10%,
\* two equal neighbours with such tails
ZeroCounts(n) == [k \in 1..n |-> 0]
FlatCounts(n) == [k \in 1..n |-> 3]
SpikeCounts(n, pk) == [k \in 1..n |-> IF k = pk THEN 20 ELSE 0]
BroadCounts(n, pk) ==
    [k \in 1..n |-> IF k = pk THEN 20
                    ELSE IF k \in {pk - 1, pk + 1} THEN 10
                    ELSE IF k \in {pk - 2, pk + 2} THEN 2 ELSE 0]
TwinCounts(n, pk) ==
    [k \in 1..n |-> IF k \in {pk, pk + 1} THEN 20
                    ELSE IF k \in {pk - 1, pk + 2} THEN 2 ELSE 0]

CountChoices(n) ==
    {ZeroCounts(n), FlatCounts(n)}
    \cup {SpikeCounts(n, pk) : pk \in {1, 6, n}}
    \cup {BroadCounts(n, pk) : pk \in {5, 6}}
    \cup {TwinCounts(n, pk) : pk \in {5, 6}}

\* a file whose rows q and q+1 are exchanged
SwapRows(ch, q) ==
    [k \in 1..Len(ch) |-> IF k = q THEN ch[q + 1] ELSE IF k = q + 1 THEN ch[q] ELSE ch[k]]

SortedChannels ==
    UNION { {MakeRows(cs, ps) : cs \in CenterChoices(n), ps \in CountChoices(n)} :
            n \in RowCounts }

\* a file written from the last bin to the first
ReverseRows(ch) == [k \in 1..Len(ch) |-> ch[Len(ch) + 1 - k]]

UnsortedCounts(n) == {FlatCounts(n), BroadCounts(n, 6)}

UnsortedChannels ==
    UNION { {SwapRows(MakeRows(UniformCenters(n, d), ps), q) :
                d \in Gaps, ps \in UnsortedCounts(n), q \in {1, n - 1}}
            \cup {ReverseRows(MakeRows(UniformCenters(n, d), ps)) :
                d \in Gaps, ps \in UnsortedCounts(n)} :
            n \in RowCounts }

\* the channel files of a measurement analysed on its own
RichChannels == SortedChannels \cup UnsortedChannels

\* the channel files of the measurements of a campaign: too short, good,
\* empty, out of order
ShortChannel == MakeRows(UniformCenters(MinRows - 1, 2), FlatCounts(MinRows - 1))
GoodChannel == MakeRows(UniformCenters(MinRows + 1, 2), BroadCounts(MinRows + 1, 6))
EmptyChannel == MakeRows(UniformCenters(MinRows + 1, 2), ZeroCounts(MinRows + 1))
CampaignChannels == {ShortChannel, GoodChannel, EmptyChannel}

\* names of channel files ('F1...', 'F2...'), ordered as their strings are
ChannelNames == 1..MaxChannels

\* the measurement directories of the campaign ('00001', '00002')
DirNames == {1, 2}

\* what a measurement directory of the campaign may hold
CampaignDirs == UNION { [1..k -> CampaignChannels] : k \in 0..MaxChannels }

\* the values of SKIP_NROWS the callers pass
SkipChoices == {0, 1}

\* what a measurement directory analysed on its own may hold
RichDirs == [{1} -> RichChannels]

\* ------------------------------------------------------------------ state

VARIABLES
    pc,              \* "Call", "Iterate", "Channels", "Done", "Raised"
    caller,          \* "Iterate" or "direct": who called GaussianFitToChannel
    todo,            \* Iterate: the measurement directories not yet visited
    IterOutput,      \* Iterate: its Output, one row per measurement
    TimeMapping,     \* Iterate: [given, dirs]: the directories whose files it lists
    MeasurementPaths,\* Iterate: the entries glob lists in the measurement directory
    MeasurementPath, \* the measurement directory being analysed
    rebin, SKIP_NROWS, MASK_TESTPULSE,
    FileList,        \* ExtractSingleMeasurement: the sorted channel-file names
    Data,            \* the channels of the measurement, in FileList order
    i,               \* index of the next channel (from 1)
    Output,          \* GaussianFitToChannel: the flat result list
    Owner,           \* the channel file behind each entry of Output
    CHData, BinWidth, BinEdges, y, x, idxMax, posMax, indices, std, p0, pars, errs,
    step,            \* how far the loop body got for the last channel
    log,             \* the lines printed
    exc,             \* the exception that left the program, or "none"
    fpc,             \* FormatPadovaData: "idle" (not running), "loop"
    InputIsDir,      \* InputPath exists and is a directory
    InputFiles,      \* the input directory: file name -> content
    InputBefore,     \* the input directory before the first run
    TargetDirs,      \* the directories under TargetPath
    TargetFiles,     \* the files under TargetPath: <<directory, name>> -> content
    TargetBefore,    \* TargetDirs and TargetFiles before the first run
    TargetAfterFirst,\* TargetDirs and TargetFiles when the first run returned
    pending,         \* the paths InputPath.glob("*.txt") has yet to yield
    runs,            \* the runs of FormatPadovaData that have returned
    mpc,             \* MergeCampaigns: "idle", "dump", "merge", "done", "raised"
    DataPath,        \* campaign directory -> the entries DataPath/<campaign> holds
    unvisited,       \* DumpCampaigns: the campaigns DataPath.glob has yet to yield
    Visited,         \* DumpCampaigns: the campaigns in the order glob yielded them
    DumpData, DumpTimeMapping, DumpTemperatureMapping,
                     \* DumpCampaigns: its locals Data, TimeMapping, TemperatureMapping
    CampaignFiles,   \* DumpCampaigns: the triples [Data, TimeMapping, TemperatureMapping]
    nextFiles,       \* MergeCampaigns: index of the next triple (from 1)
    calls,           \* the calls of the three analysis modules, in order
    MergedOutput, MergedTemperatures,
    mexc             \* the exception that left MergeCampaigns, or "none"

options == <<rebin, SKIP_NROWS, MASK_TESTPULSE>>
iterate == <<caller, todo, IterOutput, TimeMapping, MeasurementPaths>>
edges == <<BinWidth, BinEdges>>
histo == <<y, x, idxMax, posMax, indices, std, p0>>
fitted == <<pars, errs>>
fs == <<fpc, InputIsDir, InputFiles, InputBefore, TargetDirs, TargetFiles,
        TargetBefore, TargetAfterFirst, pending, runs>>
analysis == <<pc, iterate, MeasurementPath, options, FileList, Data, i, Output, Owner,
              CHData, edges, histo, fitted, step, exc>>
dump == <<unvisited, Visited, DumpData, DumpTimeMapping, DumpTemperatureMapping,
          CampaignFiles>>
campaigns == <<mpc, DataPath, dump, nextFiles, calls, MergedOutput, MergedTemperatures,
               mexc>>
vars == <<analysis, log, fs, campaigns>>

\* locals of a call of GaussianFitToChannel before its loop assigns them
NoStd == [num |-> 0, den |-> 1]

FreshCall ==
    /\ i' = 1
    /\ Output' = <<>>
    /\ Owner' = <<>>
    /\ CHData' = <<>>
    /\ BinWidth' = 0
    /\ BinEdges' = <<>>
    /\ y' = <<>>
    /\ x' = <<>>
    /\ idxMax' = 0
    /\ posMax' = 0
    /\ indices' = <<>>
    /\ std' = NoStd
    /\ p0' = <<>>
    /\ pars' = <<>>
    /\ errs' = <<>>
    /\ step' = "none"

TimeMappings ==
    {[given |-> FALSE, dirs |-> {}]}
    \cup {[given |-> TRUE, dirs |-> ds] : ds \in {DirNames, {1}}}

\* a local of DumpCampaigns that no assignment has bound yet
Unbound == [camp |-> 0, kind |-> "unbound", id |-> 0]

\* MergeCampaigns is not running
NoMergeRun ==
    /\ mpc = "idle"
    /\ DataPath = <<>>
    /\ unvisited = {}
    /\ Visited = <<>>
    /\ DumpData = Unbound
    /\ DumpTimeMapping = Unbound
    /\ DumpTemperatureMapping = Unbound
    /\ CampaignFiles = <<>>
    /\ nextFiles = 1
    /\ calls = <<>>
    /\ MergedOutput = <<>>
    /\ MergedTemperatures = <<>>
    /\ mexc = "none"

\* FormatPadovaData is not running and there is nothing on disk for it
NoFormatRun ==
    /\ fpc = "idle"
    /\ InputIsDir = FALSE
    /\ InputFiles = <<>>
    /\ InputBefore = <<>>
    /\ TargetDirs = {}
    /\ TargetFiles = <<>>
    /\ TargetBefore = <<{}, <<>>>>
    /\ TargetAfterFirst = <<{}, <<>>>>
    /\ pending = {}
    /\ runs = 0

\* Iterate calls Analyze(MeasurementPath): Analyze is GaussianFitToChannel or a
\* wrapper that sets rebin, the other options keep their defaults; a direct
\* call passes any options
Init ==
    /\ caller \in {"Iterate", "direct"}
    /\ pc = IF caller = "Iterate" THEN "Iterate" ELSE "Call"
    /\ todo = IF caller = "Iterate" THEN DirNames ELSE {}
    /\ IterOutput = <<>>
    /\ TimeMapping \in IF caller = "Iterate" THEN TimeMappings
                       ELSE {[given |-> FALSE, dirs |-> {}]}
    /\ MeasurementPaths = {}
    /\ MeasurementPath = 0
    /\ rebin \in BOOLEAN
    /\ SKIP_NROWS \in IF caller = "Iterate" THEN {0} ELSE SkipChoices
    /\ MASK_TESTPULSE \in IF caller = "Iterate" THEN {FALSE} ELSE BOOLEAN
    /\ FileList = <<>>
    /\ Data = <<>>
    /\ i = 1
    /\ Output = <<>>
    /\ Owner = <<>>
    /\ CHData = <<>>
    /\ BinWidth = 0
    /\ BinEdges = <<>>
    /\ y = <<>>
    /\ x = <<>>
    /\ idxMax = 0
    /\ posMax = 0
    /\ indices = <<>>
    /\ std = NoStd
    /\ p0 = <<>>
    /\ pars = <<>>
    /\ errs = <<>>
    /\ step = "none"
    /\ log = <<>>
    /\ exc = "none"
    /\ NoFormatRun
    /\ NoMergeRun

\* ------------------------------------------------ ExtractSingleMeasurement

\* sorted(glob.glob(...)): the names in ascending order, whatever order the
\* directory lists them in
RECURSIVE SortedNames(_)
SortedNames(S) ==
    IF S = {} THEN <<>>
    ELSE LET m == CHOOSE n \in S : \A o \in S : n <= o
         IN  <<m>> \o SortedNames(S \ {m})

\* mutant of FileListOf: the names as glob lists them, here descending
RECURSIVE UnsortedFileList(_)
UnsortedFileList(files) ==
    IF DOMAIN files = {} THEN <<>>
    ELSE LET m == CHOOSE n \in DOMAIN files : \A o \in DOMAIN files : n >= o
         IN  <<m>> \o UnsortedFileList([n \in DOMAIN files \ {m} |-> files[n]])

\* the file list of a directory holding the channel files `files`
FileListOf(files) == SortedNames(DOMAIN files)

\* Data: one table per file of the list, in its order
ExtractSingleMeasurement(files) ==
    LET fl == FileListOf(files) IN [j \in 1..Len(fl) |-> files[fl[j]]]

\* ------------------------------------------------- GaussianFitToChannel

\* GaussianFitToChannel(MeasurementPath, ...) called on its own
DirectCall ==
    /\ pc = "Call"
    /\ \E files \in RichDirs :
          /\ FileList' = FileListOf(files)
          /\ Data' = ExtractSingleMeasurement(files)
    /\ MeasurementPath' = 1
    /\ FreshCall
    /\ pc' = "Channels"
    /\ UNCHANGED <<campaigns, fs, iterate, options, log, exc>>

\* the rows of channel j the loop body works on, after SKIP_NROWS and the mask
SelectedRows(j) == MaskTestPulse(SkipRows(Data[j], SKIP_NROWS), MASK_TESTPULSE, j)

Selected == SelectedRows(i)

InLoop == pc = "Channels" /\ i <= Len(Data)

\* len(CHData) < 10: continue
SkipChannel ==
    /\ InLoop
    /\ Len(Selected) < MinRows
    /\ CHData' = Selected
    /\ i' = i + 1
    /\ step' = "skipped"
    /\ UNCHANGED <<campaigns, fs, pc, iterate, MeasurementPath, options, FileList, Data, Output,
                   Owner, edges, histo, fitted, log, exc>>

\* numpy.histogram raises ValueError: the bin edges decrease somewhere
HistogramRaises ==
    /\ InLoop
    /\ LET ch == Selected
           bins == BinEdgesOf(ch, rebin)
       IN  /\ Len(ch) >= MinRows
           /\ ~Monotonic(bins)
           /\ CHData' = ch
           /\ BinWidth' = BinWidthOf(ch)
           /\ BinEdges' = bins
    /\ step' = "edges"
    /\ exc' = "ValueError"
    /\ pc' = "Raised"
    /\ UNCHANGED <<campaigns, fs, iterate, MeasurementPath, options, FileList, Data, i, Output,
                   Owner, histo, fitted, log>>

\* indices[-1] raises IndexError: no bin is above a tenth of the largest
SeedRaises ==
    /\ InLoop
    /\ LET ch == Selected
           bins == BinEdgesOf(ch, rebin)
           yy == Histogram(BinCenters(ch), bins, Populations(ch))
           xx == BinMiddles(bins)
           im == ArgMax(yy)
       IN  /\ Len(ch) >= MinRows
           /\ Monotonic(bins)
           /\ Where(yy) = <<>>
           /\ CHData' = ch
           /\ BinWidth' = BinWidthOf(ch)
           /\ BinEdges' = bins
           /\ y' = yy
           /\ x' = xx
           /\ idxMax' = im
           /\ posMax' = xx[im]
           /\ indices' = <<>>
    /\ step' = "histogram"
    /\ exc' = "IndexError"
    /\ pc' = "Raised"
    /\ UNCHANGED <<campaigns, fs, iterate, MeasurementPath, options, FileList, Data, i, Output,
                   Owner, std, p0, fitted, log>>

\* the two lines printed when curve_fit raises RuntimeError
FitWarning(path, k, im, s) ==
    << <<"[Analyze] Could not perform fit here", path, k - 1>>,
       <<"[Analyze] Initial guesses", im - 1, s>> >>

\* the channel reaches curve_fit, which converges or raises RuntimeError
FitChannel ==
    /\ InLoop
    /\ LET ch == Selected
           bins == BinEdgesOf(ch, rebin)
           yy == Histogram(BinCenters(ch), bins, Populations(ch))
           xx == BinMiddles(bins)
           im == ArgMax(yy)
           ind == Where(yy)
           sd == StdOf(xx, ind)
       IN  /\ Len(ch) >= MinRows
           /\ Monotonic(bins)
           /\ ind # <<>>
           /\ CHData' = ch
           /\ BinWidth' = BinWidthOf(ch)
           /\ BinEdges' = bins
           /\ y' = yy
           /\ x' = xx
           /\ idxMax' = im
           /\ posMax' = xx[im]
           /\ indices' = ind
           /\ std' = sd
           /\ p0' = <<AmplitudeSeed(ch), xx[im], sd>>
           /\ \/ \E r \in FitResults :
                    /\ pars' = r.pars
                    /\ errs' = r.errs
                    /\ step' = "converged"
                    /\ log' = log
              \/ /\ pars' = Ones3
                 /\ errs' = Ones3
                 /\ step' = "RuntimeError"
                 /\ log' = log \o FitWarning(MeasurementPath, i, im, sd)
    /\ Output' = Output \o ChannelEntries(pars', errs')
    /\ Owner' = Owner \o [k \in 1..4 |-> FileList[i]]
    /\ i' = i + 1
    /\ UNCHANGED <<campaigns, fs, pc, iterate, MeasurementPath, options, FileList, Data, exc>>

\* return Output, to the caller of a direct call
DirectReturn ==
    /\ pc = "Channels"
    /\ i > Len(Data)
    /\ caller = "direct"
    /\ pc' = "Done"
    /\ UNCHANGED <<campaigns, fs, iterate, MeasurementPath, options, FileList, Data, i, Output,
                   Owner, CHData, edges, histo, fitted, step, log, exc>>

\* ---------------------------------------------------------------- Iterate

\* what a measurement directory holds besides its channel files: nothing, or
\* an entry (named 0) that CHANNEL_KEY does not match; next to channel files
\* such an entry changes nothing in Iterate and is left out
OtherEntries(files) == IF DOMAIN files = {} THEN {{}, {0}} ELSE {{}}

\* the loop takes the next measurement directory (glob lists them in any
\* order) and calls Analyze on it; glob.glob(str(MeasurementPath) + "/*")
\* after the call lists the entries the directory had during it
IterateCall ==
    /\ pc = "Iterate"
    /\ \E m \in todo :
          /\ MeasurementPath' = m
          /\ todo' = todo \ {m}
    /\ \E files \in CampaignDirs :
          /\ FileList' = FileListOf(files)
          /\ Data' = ExtractSingleMeasurement(files)
          /\ \E others \in OtherEntries(files) :
                MeasurementPaths' = DOMAIN files \cup others
    /\ FreshCall
    /\ pc' = "Channels"
    /\ UNCHANGED <<campaigns, fs, caller, IterOutput, TimeMapping, options, log, exc>>

\* the date the mapping holds for the files of a directory
DateOf(m) == 100 + m

\* CHOutput.extend([n]), the row without its time
ExtendNumber(CHOutput, t, n) == CHOutput \o <<n>>

\* CHOutput.extend([t, n])
ExtendTimeNumber(CHOutput, t, n) == CHOutput \o <<t, n>>

\* Analyze returns CHOutput; the rest of the loop body: a directory without
\* files gives no row
IterateNoFiles ==
    /\ pc = "Channels"
    /\ i > Len(Data)
    /\ caller = "Iterate"
    /\ TimeMapping.given
    /\ MeasurementPaths = {}
    /\ log' = Append(log, <<"No time mapping for", MeasurementPath, 0>>)
    /\ pc' = "Iterate"
    /\ UNCHANGED <<campaigns, fs, iterate, MeasurementPath, options, FileList, Data, i, Output,
                   Owner, CHData, edges, histo, fitted, step, exc>>

\* the row of the measurement: CHOutput, its time, its number
IterateRow ==
    /\ pc = "Channels"
    /\ i > Len(Data)
    /\ caller = "Iterate"
    /\ TimeMapping.given
    /\ MeasurementPaths # {}
    /\ MeasurementPath \in TimeMapping.dirs
    /\ IterOutput' = Append(IterOutput,
                            ExtendTimeNumber(Output, DateOf(MeasurementPath), MeasurementPath))
    /\ pc' = "Iterate"
    /\ UNCHANGED <<campaigns, fs, caller, todo, TimeMapping, MeasurementPaths, MeasurementPath, options, FileList,
                   Data, i, Output, Owner, CHData, edges, histo, fitted, step, log, exc>>

\* .iloc[0] of an empty selection raises IndexError: the mapping has no row
\* for the first file of the directory
IterateNoDate ==
    /\ pc = "Channels"
    /\ i > Len(Data)
    /\ caller = "Iterate"
    /\ TimeMapping.given
    /\ MeasurementPaths # {}
    /\ MeasurementPath \notin TimeMapping.dirs
    /\ exc' = "IndexError"
    /\ pc' = "Raised"
    /\ UNCHANGED <<campaigns, fs, iterate, MeasurementPath, options, FileList, Data, i, Output,
                   Owner, CHData, edges, histo, fitted, step, log>>

\* without a mapping the directory name is parsed as %Y%m%d_%H%M%S, which a
\* measurement number ('00001') is not: strptime raises ValueError
IterateNoMapping ==
    /\ pc = "Channels"
    /\ i > Len(Data)
    /\ caller = "Iterate"
    /\ ~TimeMapping.given
    /\ exc' = "ValueError"
    /\ pc' = "Raised"
    /\ UNCHANGED <<campaigns, fs, iterate, MeasurementPath, options, FileList, Data, i, Output,
                   Owner, CHData, edges, histo, fitted, step, log>>

\* return Output
IterateReturn ==
    /\ pc = "Iterate"
    /\ todo = {}
    /\ pc' = "Done"
    /\ UNCHANGED <<campaigns, fs, iterate, MeasurementPath, options, FileList, Data, i, Output,
                   Owner, CHData, edges, histo, fitted, step, log, exc>>

Next ==
    \/ DirectCall
    \/ SkipChannel
    \/ HistogramRaises
    \/ SeedRaises
    \/ FitChannel
    \/ DirectReturn
    \/ IterateCall
    \/ IterateNoFiles
    \/ IterateRow
    \/ IterateNoDate
    \/ IterateNoMapping
    \/ IterateReturn

Spec == Init /\ [][Next]_vars

\* ------------------------------------------------------- FormatPadovaData

\* file names are sequences of characters
Txt == <<".", "t", "x", "t">>
Digits == {"0", "1", "2", "3", "4", "5", "6", "7", "8", "9"}

EndsWith(name, suffix) ==
    /\ Len(name) >= Len(suffix)
    /\ SubSeq(name, Len(name) - Len(suffix) + 1, Len(name)) = suffix

\* InputPath.glob("*.txt"): the entries whose name ends in .txt
GlobTxt(files) == {n \in DOMAIN files : EndsWith(n, Txt)}

\* where a match of REGEXSTRING starts in the name: `$` pins its end to the
\* end of the name, and the pattern has a fixed length
MatchStart(name) == Len(name) - (2 + NumberDigits + Len(Txt)) + 1

\* re.search(r"--(\d{5})\.txt$", FileName)
RegexMatches(name) ==
    LET p == MatchStart(name)
    IN  /\ p >= 1
        /\ name[p] = "-"
        /\ name[p + 1] = "-"
        /\ \A k \in 1..NumberDigits : name[p + 1 + k] \in Digits
        /\ EndsWith(name, Txt)

\* match.group(1)
MeasurementNumberOf(name) ==
    SubSeq(name, MatchStart(name) + 2, MatchStart(name) + 1 + NumberDigits)

\* mutant of InputAfterCopy: the file is moved, not copied
InputAfterMove(files, name) == [n \in DOMAIN files \ {name} |-> files[n]]

\* the input directory after shutil.copy(FilePath, ...): as before
InputAfterCopy(files, name) == files

\* the names the input directory may hold
F1 == <<"F", "1">>
F2 == <<"F", "2">>
Name_F1_00001 == F1 \o <<"-", "-", "0", "0", "0", "0", "1">> \o Txt
Name_F2_00001 == F2 \o <<"-", "-", "0", "0", "0", "0", "1">> \o Txt
Name_F1_00002 == F1 \o <<"-", "-", "0", "0", "0", "0", "2">> \o Txt
Name_ThreeDashes == F1 \o <<"-", "-", "-", "0", "0", "0", "0", "3">> \o Txt
Name_OneDash == F1 \o <<"-", "0", "0", "0", "0", "1">> \o Txt
Name_FourDigits == F1 \o <<"-", "-", "0", "0", "0", "1">> \o Txt
Name_SixDigits == F1 \o <<"-", "-", "0", "0", "0", "0", "0", "1">> \o Txt
Name_Letter == F1 \o <<"-", "-", "0", "0", "0", "0", "a">> \o Txt
Name_Txt3 == F1 \o <<"-", "-", "0", "0", "0", "0", "1">> \o Txt \o <<"3">>
Name_Notes == <<"n", "o", "t", "e", "s">> \o Txt

ExampleNames ==
    {Name_F1_00001, Name_F2_00001, Name_F1_00002, Name_ThreeDashes, Name_OneDash,
     Name_FourDigits, Name_SixDigits, Name_Letter, Name_Txt3, Name_Notes}

\* the input directories: up to MaxInputFiles files, each of content 1
InputChoices ==
    UNION { [names -> {1}] :
            names \in {S \in SUBSET ExampleNames : Cardinality(S) <= MaxInputFiles} }

\* the target before the first run: missing, or holding a stale copy (content
\* 0) of one file and the directory of an older measurement
Num(d) == <<"0", "0", "0", "0", d>>
TargetChoices ==
    { <<{}, <<>>>>,
      <<{Num("1"), Num("9")},
        (<<Num("1"), Name_F1_00001>> :> 0) @@ (<<Num("9"), Name_Notes>> :> 0)>> }

InitFormat ==
    /\ caller = "direct"
    /\ pc = "Done"
    /\ todo = {}
    /\ IterOutput = <<>>
    /\ TimeMapping = [given |-> FALSE, dirs |-> {}]
    /\ MeasurementPaths = {}
    /\ MeasurementPath = 0
    /\ rebin = FALSE
    /\ SKIP_NROWS = 0
    /\ MASK_TESTPULSE = FALSE
    /\ FileList = <<>>
    /\ Data = <<>>
    /\ i = 1
    /\ Output = <<>>
    /\ Owner = <<>>
    /\ CHData = <<>>
    /\ BinWidth = 0
    /\ BinEdges = <<>>
    /\ y = <<>>
    /\ x = <<>>
    /\ idxMax = 0
    /\ posMax = 0
    /\ indices = <<>>
    /\ std = NoStd
    /\ p0 = <<>>
    /\ pars = <<>>
    /\ errs = <<>>
    /\ step = "none"
    /\ log = <<>>
    /\ exc = "none"
    /\ fpc = "idle"
    /\ InputIsDir \in BOOLEAN
    /\ InputFiles \in IF InputIsDir THEN InputChoices ELSE {<<>>}
    /\ InputBefore = InputFiles
    /\ \E t \in TargetChoices :
          /\ TargetDirs = t[1]
          /\ TargetFiles = t[2]
          /\ TargetBefore = t
    /\ TargetAfterFirst = <<{}, <<>>>>
    /\ pending = {}
    /\ runs = 0
    /\ NoMergeRun

\* FormatPadovaData(InputPath, TargetPath) is called (a first time, then a
\* second time on the same input): a missing input directory is reported and
\* lists nothing
FormatCall ==
    /\ fpc = "idle"
    /\ runs < 2
    /\ log' = IF InputIsDir THEN log
              ELSE Append(log, <<"Input path does not exist or you don't have access", 0, 0>>)
    /\ pending' = IF InputIsDir THEN GlobTxt(InputFiles) ELSE {}
    /\ fpc' = "loop"
    /\ UNCHANGED <<campaigns, analysis, InputIsDir, InputFiles, InputBefore, TargetDirs,
                   TargetFiles, TargetBefore, TargetAfterFirst, runs>>

\* the loop body for a file the pattern does not match: continue
FormatSkip ==
    /\ fpc = "loop"
    /\ \E f \in pending :
          /\ ~RegexMatches(f)
          /\ pending' = pending \ {f}
          /\ log' = Append(log, <<"Skipping unrecognized file", f, 0>>)
    /\ UNCHANGED <<campaigns, analysis, fpc, InputIsDir, InputFiles, InputBefore, TargetDirs,
                   TargetFiles, TargetBefore, TargetAfterFirst, runs>>

\* the loop body for a file the pattern matches: mkdir(parents=True,
\* exist_ok=True) of TargetPath/<number>, then shutil.copy into it
FormatCopy ==
    /\ fpc = "loop"
    /\ \E f \in pending :
          /\ RegexMatches(f)
          /\ pending' = pending \ {f}
          /\ TargetDirs' = TargetDirs \cup {MeasurementNumberOf(f)}
          /\ TargetFiles' = (<<MeasurementNumberOf(f), f>> :> InputFiles[f]) @@ TargetFiles
          /\ InputFiles' = InputAfterCopy(InputFiles, f)
    /\ UNCHANGED <<campaigns, analysis, log, fpc, InputIsDir, InputBefore, TargetBefore,
                   TargetAfterFirst, runs>>

\* return None
FormatReturn ==
    /\ fpc = "loop"
    /\ pending = {}
    /\ fpc' = "idle"
    /\ runs' = runs + 1
    /\ TargetAfterFirst' = IF runs = 0 THEN <<TargetDirs, TargetFiles>> ELSE TargetAfterFirst
    /\ UNCHANGED <<campaigns, analysis, log, InputIsDir, InputFiles, InputBefore, TargetDirs,
                   TargetFiles, TargetBefore, pending>>

NextFormat ==
    \/ FormatCall
    \/ FormatSkip
    \/ FormatCopy
    \/ FormatReturn

SpecFormat == InitFormat /\ [][NextFormat]_vars

\* ------------------------------------------- DumpCampaigns, MergeCampaigns

\* an entry of a campaign directory: the campaign it lies in, what its name
\* makes of it ("Time" in the name, else "Temperature" in the name, else
\* data) and which of the entries of that kind it is
Entry(c, kind, id) == [camp |-> c, kind |-> kind, id |-> id]

\* what a campaign directory can hold: everything, no time mapping, no
\* temperature log, no data, two entries that are neither, nothing (also an
\* entry of DataPath that is a plain file: its glob yields nothing)
EntryKinds ==
    { {<<"Data", 1>>, <<"Time", 1>>, <<"Temperature", 1>>},
      {<<"Data", 1>>, <<"Temperature", 1>>},
      {<<"Data", 1>>, <<"Time", 1>>},
      {<<"Time", 1>>, <<"Temperature", 1>>},
      {<<"Data", 1>>, <<"Data", 2>>, <<"Time", 1>>, <<"Temperature", 1>>},
      {} }
CampaignChoices(c) == { {Entry(c, e[1], e[2]) : e \in ks} : ks \in EntryKinds }
DataPathChoices ==
    UNION { {dp \in [1..n -> UNION {CampaignChoices(c) : c \in 1..n}] :
                \A c \in 1..n : dp[c] \in CampaignChoices(c)} : n \in 0..MaxCampaigns }

\* the inner loop of DumpCampaigns over the entries of one campaign: the last
\* entry of a kind that glob yields is the one the local keeps (any of them,
\* glob has no order), a kind without entry leaves the local as it was
OfKind(entries, kind) == {e \in entries : e.kind = kind}
LastOrOld(old, entries, kind) ==
    IF OfKind(entries, kind) = {} THEN {old} ELSE OfKind(entries, kind)

\* the analysis modules MergeCampaigns is given: the time mapping read from a
\* path, the temperature block read from a path (one row per campaign
\* number), the rows AnalyzeCampaign makes of a campaign and a mapping
AnalyzeTimes(path) == [times |-> path]
AnalyzeTemperatures(path) == [r \in 1..path.camp |-> [temperatures |-> path, row |-> r]]
AnalyzeCampaign(path, mapping) ==
    [r \in 1..path.id |-> [campaign |-> path, mapping |-> mapping, row |-> r]]

\* MergedOutput.extend(Output)
ExtendOutput(merged, out) == merged \o out

\* pandas.concat(blocks, ignore_index = True)
RECURSIVE Concat(_)
Concat(blocks) == IF blocks = <<>> THEN <<>> ELSE Head(blocks) \o Concat(Tail(blocks))

NoAnalysisRun ==
    /\ caller = "direct"
    /\ pc = "Done"
    /\ todo = {}
    /\ IterOutput = <<>>
    /\ TimeMapping = [given |-> FALSE, dirs |-> {}]
    /\ MeasurementPaths = {}
    /\ MeasurementPath = 0
    /\ rebin = FALSE
    /\ SKIP_NROWS = 0
    /\ MASK_TESTPULSE = FALSE
    /\ FileList = <<>>
    /\ Data = <<>>
    /\ i = 1
    /\ Output = <<>>
    /\ Owner = <<>>
    /\ CHData = <<>>
    /\ BinWidth = 0
    /\ BinEdges = <<>>
    /\ y = <<>>
    /\ x = <<>>
    /\ idxMax = 0
    /\ posMax = 0
    /\ indices = <<>>
    /\ std = NoStd
    /\ p0 = <<>>
    /\ pars = <<>>
    /\ errs = <<>>
    /\ step = "none"
    /\ log = <<>>
    /\ exc = "none"

InitMerge ==
    /\ NoAnalysisRun
    /\ NoFormatRun
    /\ mpc = "idle"
    /\ DataPath \in DataPathChoices
    /\ unvisited = {}
    /\ Visited = <<>>
    /\ DumpData = Unbound
    /\ DumpTimeMapping = Unbound
    /\ DumpTemperatureMapping = Unbound
    /\ CampaignFiles = <<>>
    /\ nextFiles = 1
    /\ calls = <<>>
    /\ MergedOutput = <<>>
    /\ MergedTemperatures = <<>>
    /\ mexc = "none"

\* MergeCampaigns is called and calls DumpCampaigns(DataPath)
MergeCall ==
    /\ mpc = "idle"
    /\ mpc' = "dump"
    /\ unvisited' = DOMAIN DataPath
    /\ UNCHANGED <<analysis, log, fs, DataPath, Visited, DumpData, DumpTimeMapping,
                   DumpTemperatureMapping, CampaignFiles, nextFiles, calls,
                   MergedOutput, MergedTemperatures, mexc>>

\* DumpCampaigns, one campaign: the inner loop sets the locals, then the
\* triple is appended
DumpAppend ==
    /\ mpc = "dump"
    /\ \E c \in unvisited :
       \E d \in LastOrOld(DumpData, DataPath[c], "Data"),
          t \in LastOrOld(DumpTimeMapping, DataPath[c], "Time"),
          T \in LastOrOld(DumpTemperatureMapping, DataPath[c], "Temperature") :
          /\ Unbound \notin {d, t, T}
          /\ unvisited' = unvisited \ {c}
          /\ Visited' = Append(Visited, c)
          /\ DumpData' = d
          /\ DumpTimeMapping' = t
          /\ DumpTemperatureMapping' = T
          /\ CampaignFiles' = Append(CampaignFiles, <<d, t, T>>)
    /\ UNCHANGED <<analysis, log, fs, mpc, DataPath, nextFiles, calls, MergedOutput,
                   MergedTemperatures, mexc>>

\* DumpCampaigns, one campaign: a local that no campaign so far has bound is
\* read when the triple is built, UnboundLocalError
DumpRaises ==
    /\ mpc = "dump"
    /\ \E c \in unvisited :
       \E d \in LastOrOld(DumpData, DataPath[c], "Data"),
          t \in LastOrOld(DumpTimeMapping, DataPath[c], "Time"),
          T \in LastOrOld(DumpTemperatureMapping, DataPath[c], "Temperature") :
          /\ Unbound \in {d, t, T}
          /\ unvisited' = unvisited \ {c}
          /\ Visited' = Append(Visited, c)
          /\ DumpData' = d
          /\ DumpTimeMapping' = t
          /\ DumpTemperatureMapping' = T
    /\ mexc' = "UnboundLocalError"
    /\ mpc' = "raised"
    /\ UNCHANGED <<analysis, log, fs, DataPath, CampaignFiles, nextFiles, calls,
                   MergedOutput, MergedTemperatures>>

\* DumpCampaigns returns CampaignFiles
DumpReturn ==
    /\ mpc = "dump"
    /\ unvisited = {}
    /\ mpc' = "merge"
    /\ UNCHANGED <<analysis, log, fs, DataPath, dump, nextFiles, calls, MergedOutput,
                   MergedTemperatures, mexc>>

\* MergeCampaigns, one triple: the three modules are called, the campaign's
\* rows extend MergedOutput and its temperatures are appended
MergeCampaign ==
    /\ mpc = "merge"
    /\ nextFiles <= Len(CampaignFiles)
    /\ LET PATH_CAMPAIGN == CampaignFiles[nextFiles][1]
           PATH_TIMES == CampaignFiles[nextFiles][2]
           PATH_TEMPERATURES == CampaignFiles[nextFiles][3]
           Mapping == AnalyzeTimes(PATH_TIMES)
           Temperatures == AnalyzeTemperatures(PATH_TEMPERATURES)
           Out == AnalyzeCampaign(PATH_CAMPAIGN, Mapping)
       IN  /\ calls' = calls \o << <<"AnalyzeTimes", PATH_TIMES, Unbound>>,
                                   <<"AnalyzeTemperatures", PATH_TEMPERATURES, Unbound>>,
                                   <<"AnalyzeCampaign", PATH_CAMPAIGN, Mapping.times>> >>
           /\ MergedOutput' = ExtendOutput(MergedOutput, Out)
           /\ MergedTemperatures' = Append(MergedTemperatures, Temperatures)
    /\ nextFiles' = nextFiles + 1
    /\ UNCHANGED <<analysis, log, fs, mpc, DataPath, dump, mexc>>

\* MergeCampaigns, one triple: one of the three modules raises (AnalyzeCampaign
\* is Iterate, which can); the calls made are those up to the one that raised
MergeModuleRaises ==
    /\ mpc = "merge"
    /\ nextFiles <= Len(CampaignFiles)
    /\ LET PATH_CAMPAIGN == CampaignFiles[nextFiles][1]
           PATH_TIMES == CampaignFiles[nextFiles][2]
           PATH_TEMPERATURES == CampaignFiles[nextFiles][3]
           made == << <<"AnalyzeTimes", PATH_TIMES, Unbound>>,
                      <<"AnalyzeTemperatures", PATH_TEMPERATURES, Unbound>>,
                      <<"AnalyzeCampaign", PATH_CAMPAIGN, AnalyzeTimes(PATH_TIMES).times>> >>
       IN  \E n \in 1..3 : calls' = calls \o SubSeq(made, 1, n)
    /\ mexc' = "module"
    /\ mpc' = "raised"
    /\ UNCHANGED <<analysis, log, fs, DataPath, dump, nextFiles, MergedOutput,
                   MergedTemperatures>>

\* after the loop: pandas.concat of the blocks, return
MergeReturn ==
    /\ mpc = "merge"
    /\ nextFiles > Len(CampaignFiles)
    /\ MergedTemperatures # <<>>
    /\ MergedTemperatures' = Concat(MergedTemperatures)
    /\ mpc' = "done"
    /\ UNCHANGED <<analysis, log, fs, DataPath, dump, nextFiles, calls, MergedOutput,
                   mexc>>

\* after the loop: pandas.concat of an empty list raises ValueError ("No
\* objects to concatenate"), which is what a DataPath without campaign gives
MergeConcatRaises ==
    /\ mpc = "merge"
    /\ nextFiles > Len(CampaignFiles)
    /\ MergedTemperatures = <<>>
    /\ mexc' = "ValueError"
    /\ mpc' = "raised"
    /\ UNCHANGED <<analysis, log, fs, DataPath, dump, nextFiles, calls, MergedOutput,
                   MergedTemperatures>>

NextMerge ==
    \/ MergeCall
    \/ DumpAppend
    \/ DumpRaises
    \/ DumpReturn
    \/ MergeCampaign
    \/ MergeModuleRaises
    \/ MergeReturn
    \/ MergeConcatRaises

SpecMerge == InitMerge /\ [][NextMerge]_vars

\* ------------------------------------------------------------------ claims

\* the call of GaussianFitToChannel is at its `return Output`
Returned == pc = "Channels" /\ i > Len(Data)

\* an exception left the loop body of GaussianFitToChannel
RaisedInChannel == pc = "Raised" /\ step \in {"edges", "histogram"}

\* the last channel got as far as its BinWidth and BinEdges, as far as its fit
WidthDone == step \in {"edges", "histogram", "converged", "RuntimeError"}
FitDone == step \in {"converged", "RuntimeError"}

\* C1: no channel of a measurement that Iterate analyses makes the loop body of
\* GaussianFitToChannel raise: the body always finishes and the call returns
\* to Iterate.
C1_NoChannelHaltsTheBatch == caller = "Iterate" => ~RaisedInChannel

\* C2: a step of the loop in which curve_fit raises RuntimeError sets pars and
\* errs to (1, 1, 1), appends the four entries 1, 1, 1, 1 to Output, leaves
\* the entries of the earlier channels as they are and prints the warning;
\* and no step of the call changes an entry that is already in Output.
C2_FailedFitGivesPlaceholder ==
    [][ pc = "Channels" =>
          /\ Len(Output') >= Len(Output)
          /\ SubSeq(Output', 1, Len(Output)) = Output
          /\ (i' = i + 1 /\ step' = "RuntimeError") =>
                /\ pars' = <<1, 1, 1>>
                /\ errs' = <<1, 1, 1>>
                /\ Output' = Output \o <<1, 1, 1, 1>>
                /\ Len(log') = Len(log) + 2
                /\ SubSeq(log', 1, Len(log)) = log
                /\ log'[Len(log) + 1] =
                     <<"[Analyze] Could not perform fit here", MeasurementPath, i - 1>>
                /\ pc' = "Channels" ]_vars

\* C2 witness: the fit of the first channel failed, the loop went on and the
\* second channel, whose fit converged, added its entries behind the four 1s
C2_Witness ==
    /\ step = "converged"
    /\ Len(Output) = 8
    /\ SubSeq(Output, 1, 4) = <<1, 1, 1, 1>>
    /\ SubSeq(Output, 5, 8) # <<1, 1, 1, 1>>
    /\ Len(log) = 2

\* the channels (indices into Data) that have at least 10 rows left
KeptChannels == SelectSeq([j \in 1..Len(Data) |-> j], LAMBDA j : Len(SelectedRows(j)) >= MinRows)

UniformSpacing(ch) ==
    LET D == Diff(Sorted(BinCenters(ch)))
    IN  IF \A k \in 1..Len(D) : D[k] = D[1] THEN D[1] ELSE -1

\* v is w rounded to 6 decimals, ties to even
IsRounded6(v, w) ==
    /\ v % Micro = 0
    /\ 2 * (v - w) <= Micro
    /\ 2 * (w - v) <= Micro
    /\ (2 * (v - w) = Micro \/ 2 * (w - v) = Micro) => (v \div Micro) % 2 = 0

\* C4 as stated: BinWidth is the rounded median of the differences of the
\* sorted centres, whatever the order of the rows, and equals d when the
\* centres are d apart.
C4_WidthOfUniformIsSpacing ==
    WidthDone =>
        /\ IsRounded6(BinWidth, Median(Diff(Sorted(BinCenters(CHData)))))
        /\ BinWidth = BinWidthOf(ReverseRows(CHData))
        /\ UniformSpacing(CHData) >= 0 => BinWidth = UniformSpacing(CHData)

\* C4 amended: ... and equals d rounded to 6 decimals when the centres are d
\* apart, which is d when d is a multiple of 1e-6.
C4_WidthIsRoundedMedian ==
    WidthDone =>
        /\ IsRounded6(BinWidth, Median(Diff(Sorted(BinCenters(CHData)))))
        /\ BinWidth = BinWidthOf(ReverseRows(CHData))
        /\ BinWidth = BinWidthOf(SwapRows(CHData, 1))
        /\ UniformSpacing(CHData) >= 0 =>
              /\ IsRounded6(BinWidth, UniformSpacing(CHData))
              /\ UniformSpacing(CHData) % Micro = 0 => BinWidth = UniformSpacing(CHData)

\* C4 witness: rows out of order, 1.5e-6 apart: the width is 2e-6
C4_Witness ==
    /\ WidthDone
    /\ \E k \in 1..(Len(CHData) - 1) : CHData[k].BinCenter > CHData[k + 1].BinCenter
    /\ 2 * UniformSpacing(CHData) = 3 * Micro
    /\ BinWidth = 2 * Micro

\* C5: the edges built for a channel of n centres are n+1, increasing, the
\* midpoints of adjacent centres between c[1] - W/2 and c[n] + W/2, and centre
\* k is in bin k.
C5_EdgesAreMidpoints ==
    WidthDone =>
        LET c == BinCenters(CHData)
            n == Len(c)
            e == FullBinEdges(CHData)
        IN  /\ Len(e) = n + 1
            /\ \A k \in 1..n : e[k] < e[k + 1]
            /\ 2 * e[1] = 2 * c[1] - BinWidth
            /\ 2 * e[n + 1] = 2 * c[n] + BinWidth
            /\ \A k \in 2..n : 2 * e[k] = c[k - 1] + c[k]
            /\ \A k \in 1..n : e[k] <= c[k] /\ c[k] <= e[k + 1]

\* C6: with rebin the edges are those at even index of the full list, bin j
\* of the histogram holds the counts of the full bins 2j-1 and 2j (counted
\* from 1), and every full bin is in one of them.
C6_RebinPairsAllBins ==
    (FitDone /\ rebin /\ Monotonic(FullBinEdges(CHData))) =>
        LET full == FullBinEdges(CHData)
            yfull == Histogram(BinCenters(CHData), full, Populations(CHData))
        IN  /\ BinEdges = EveryOther(full)
            /\ 2 * Len(y) = Len(yfull)
            /\ \A j \in 1..Len(y) :
                  2 * j <= Len(yfull) => y[j] = yfull[2 * j - 1] + yfull[2 * j]

\* the bins above a tenth of the largest content
AboveTenthBins == {k \in 1..Len(y) : 10 * y[k] > y[idxMax]}

\* C7: posMax is the middle of the first bin of largest content, and std is
\* (x[last] - x[first]) / 2.355 over the bins strictly above 10% of it.
C7_SeedsFromHistogram ==
    FitDone =>
        /\ idxMax \in 1..Len(y)
        /\ \A k \in 1..Len(y) : y[k] <= y[idxMax]
        /\ \A k \in 1..(idxMax - 1) : y[k] < y[idxMax]
        /\ 2 * posMax = BinEdges[idxMax] + BinEdges[idxMax + 1]
        /\ p0[2] = posMax
        /\ p0[3] = std
        /\ AboveTenthBins # {}
        /\ \E first \in AboveTenthBins, last \in AboveTenthBins :
              /\ \A k \in AboveTenthBins : first <= k /\ k <= last
              /\ 2 * std.num * 2355 =
                   1000 * std.den * ((BinEdges[last] + BinEdges[last + 1])
                                     - (BinEdges[first] + BinEdges[first + 1]))

\* C7 witness: two bins share the largest content and a third holds exactly
\* a tenth of it
C7_Witness ==
    /\ FitDone
    /\ \E k \in 1..Len(y) : k # idxMax /\ y[k] = y[idxMax]
    /\ \E k \in 1..Len(y) : y[k] > 0 /\ 10 * y[k] = y[idxMax]
    /\ std.num > 0

\* C8: the amplitude seed is the largest bin content of the histogram that
\* is fitted.
C8_AmplitudeSeedIsMaxOfHistogram == FitDone => p0[1] = MaxSeq(y)

\* C10: the contents of the histogram add up to the sum of the count column.
C10_WeightConserved == FitDone => SumSeq(y) = SumSeq(Populations(CHData))

\* the example names that r"--(\d{5})\.txt$" matches, and their numbers
ExpectedNumber ==
    (Name_F1_00001 :> Num("1")) @@ (Name_F2_00001 :> Num("1"))
    @@ (Name_F1_00002 :> Num("2")) @@ (Name_ThreeDashes :> Num("3"))

\* C9: the input directory is never changed; once a run has returned, every
\* input file that matches the pattern is at TargetPath/<number>/<name> with
\* its content, the target holds besides that only what it held before, no
\* directory was made for another name, and a second run changes nothing.
C9_OnlyCopies ==
    /\ InputFiles = InputBefore
    /\ runs >= 1 =>
          LET copied == DOMAIN InputBefore \cap DOMAIN ExpectedNumber
          IN  /\ \A n \in copied :
                    /\ ExpectedNumber[n] \in TargetDirs
                    /\ <<ExpectedNumber[n], n>> \in DOMAIN TargetFiles
                    /\ TargetFiles[<<ExpectedNumber[n], n>>] = InputBefore[n]
              /\ TargetDirs = TargetBefore[1] \cup {ExpectedNumber[n] : n \in copied}
              /\ DOMAIN TargetFiles =
                   DOMAIN TargetBefore[2] \cup {<<ExpectedNumber[n], n>> : n \in copied}
              /\ \A f \in DOMAIN TargetBefore[2] :
                    f[2] \notin copied => TargetFiles[f] = TargetBefore[2][f]
              /\ <<TargetDirs, TargetFiles>> = TargetAfterFirst

\* C9 witness: the second run has returned on an input with a file that is
\* copied over a stale copy, a file that is skipped and no new directory 00001
C9_Witness ==
    /\ runs = 2
    /\ Name_F1_00001 \in DOMAIN InputFiles
    /\ Name_SixDigits \in DOMAIN InputFiles
    /\ Name_F1_00002 \in DOMAIN InputFiles
    /\ TargetBefore[1] # {}
    /\ TargetFiles[<<Num("1"), Name_F1_00001>>] = 1

\* C11: every triple of CampaignFiles is made of three paths of the campaign
\* directory it was appended for, and when DumpCampaigns has returned there is
\* one triple per campaign directory: no triple holds a path found for a
\* campaign visited before.
C11_TripleOfOneCampaign ==
    /\ \A j \in 1..Len(CampaignFiles) :
          \A e \in 1..3 : CampaignFiles[j][e].camp = Visited[j]
    /\ mpc \in {"merge", "done"} => Len(CampaignFiles) = Cardinality(DOMAIN DataPath)

\* the rows and the temperature blocks of the first n triples of CampaignFiles
RECURSIVE OutputOfFirst(_)
OutputOfFirst(n) ==
    IF n = 0 THEN <<>>
    ELSE OutputOfFirst(n - 1)
         \o AnalyzeCampaign(CampaignFiles[n][1], AnalyzeTimes(CampaignFiles[n][2]))
BlocksOfFirst(n) == [j \in 1..n |-> AnalyzeTemperatures(CampaignFiles[j][3])]

\* C13, the part about the order: MergeCampaigns takes the triples in the
\* order of CampaignFiles; for the j-th it calls AnalyzeTimes on its time path,
\* AnalyzeTemperatures on its temperature path and AnalyzeCampaign on its data
\* path with the mapping AnalyzeTimes gave for that triple, each once and in
\* this order; MergedOutput is the concatenation of the campaigns' rows in
\* that order and the merged temperatures are the campaigns' blocks in that
\* order, concatenated at the return.
C13_MergeInOrder ==
    mpc \in {"merge", "done"} =>
       LET n == nextFiles - 1
       IN  /\ n <= Len(CampaignFiles)
           /\ Len(calls) = 3 * n
           /\ \A j \in 1..n :
                 /\ calls[3 * j - 2] = <<"AnalyzeTimes", CampaignFiles[j][2], Unbound>>
                 /\ calls[3 * j - 1] =
                       <<"AnalyzeTemperatures", CampaignFiles[j][3], Unbound>>
                 /\ calls[3 * j] =
                       <<"AnalyzeCampaign", CampaignFiles[j][1], CampaignFiles[j][2]>>
           /\ MergedOutput = OutputOfFirst(n)
           /\ mpc = "merge" => MergedTemperatures = BlocksOfFirst(n)
           /\ mpc = "done" => /\ n = Len(CampaignFiles)
                              /\ MergedTemperatures = Concat(BlocksOfFirst(n))

\* C13: the calls are made in that order and the mapping AnalyzeCampaign gets
\* with the data of a campaign is the one read from the time-mapping file of
\* that same campaign directory, as are the temperatures merged for it.
C13_MergeOfSameCampaign ==
    /\ C13_MergeInOrder
    /\ mpc \in {"merge", "done"} =>
          \A j \in 1..(nextFiles - 1) :
             /\ CampaignFiles[j][1].camp = Visited[j]
             /\ CampaignFiles[j][2].camp = CampaignFiles[j][1].camp
             /\ CampaignFiles[j][3].camp = CampaignFiles[j][1].camp

\* MergeCampaigns has returned the merge of two campaigns with
\* different paths, rows and temperature blocks.
MergedTwoCampaigns ==
    /\ mpc = "done"
    /\ Len(CampaignFiles) = 2
    /\ CampaignFiles[1][2] # CampaignFiles[2][2]
    /\ CampaignFiles[1][1].id # CampaignFiles[2][1].id
    /\ Len(MergedOutput) = 3
    /\ Len(MergedTemperatures) = 3

\* the lines "No time mapping for ..." printed so far
NoFilesLines == {k \in 1..Len(log) : log[k][1] = "No time mapping for"}

\* the rows of IterOutput end with the numbers of different directories, all
\* of them taken by the loop already
RowsOfVisited ==
    /\ \A r \in 1..Len(IterOutput) :
          IterOutput[r][Len(IterOutput[r])] \in DirNames \ todo
    /\ \A r, q \in 1..Len(IterOutput) :
          IterOutput[r][Len(IterOutput[r])] = IterOutput[q][Len(IterOutput[q])] => r = q
    /\ pc = "Done" =>
          Len(IterOutput) + Cardinality(NoFilesLines) = Cardinality(DirNames)

\* C12: in Iterate with a TimeMapping, the loop body that ends for a directory
\* with at least one entry appends one row, the list Analyze returned for that
\* directory followed by its time from the mapping and its number; the body
\* that ends for a directory without entries appends nothing and leaves the
\* remaining directories to the loop; no other step changes the output, so
\* the returned output has one row per directory with entries and none for
\* the others.
C12_OneRowPerDirectoryWithFiles ==
    [][ (caller = "Iterate" /\ TimeMapping.given) =>
           /\ IF pc = "Channels" /\ pc' = "Iterate"
              THEN /\ Returned
                   /\ todo' = todo
                   /\ IF MeasurementPaths = {}
                      THEN IterOutput' = IterOutput
                      ELSE /\ Len(IterOutput') = Len(IterOutput) + 1
                           /\ SubSeq(IterOutput', 1, Len(IterOutput)) = IterOutput
                           /\ IterOutput'[Len(IterOutput')] =
                                 Output \o <<DateOf(MeasurementPath), MeasurementPath>>
              ELSE IterOutput' = IterOutput
           /\ RowsOfVisited' ]_vars

\* C12 witness: Iterate has returned from a campaign of two directories, one
\* without entries, which Analyze was called on and which got a line but no
\* row, and one with a channel file, whose row holds the four entries of the
\* channel, the time and the number.
C12_Witness ==
    /\ caller = "Iterate"
    /\ TimeMapping.given
    /\ pc = "Done"
    /\ Cardinality(NoFilesLines) = 1
    /\ Len(IterOutput) = 1
    /\ Len(IterOutput[1]) = 6
    /\ IterOutput[1][5] = DateOf(IterOutput[1][6])

\* C14, the part about the bins: for a channel that reaches the fit the bins
\* above 10% of the largest content are not empty and hold the largest bin,
\* and posMax lies between the middles of the first and the last of them.
SeedBinsHoldThePeak ==
    FitDone =>
        /\ indices # <<>>
        /\ idxMax \in AboveTenthBins
        /\ x[indices[1]] <= posMax
        /\ posMax <= x[indices[Len(indices)]]

\* C14: for every channel that reaches the fit the bins above 10% of the
\* largest content are not empty and hold the largest bin, posMax lies between
\* the first and the last of them, and the width seed std is strictly
\* positive.
C14_SeedWellDefined ==
    /\ SeedBinsHoldThePeak
    /\ FitDone => (std.num > 0 /\ p0[3] = std)

====
